---- MODULE Spec2Model ----
(***************************************************************************)
(* A model of HEDO.py: the HTTPClient session/pilot client, the keepalive  *)
(* thread, glove calibration and the two hand loops with their gesture     *)
(* rules.                                                                  *)
(***************************************************************************)
EXTENDS Integers, Naturals, Sequences, FiniteSets, TLC

(***************************************************************************)
(* Python floats.  The gesture rules compare differences and sums of       *)
(* Python floats (IEEE-754 binary64) with decimal literals.  A float of    *)
(* the magnitudes that occur here (0, or 2^-45 <= x < 2^10) is held        *)
(* exactly as a fixed-point number of NumLimbs limbs of LimbBits bits,     *)
(* most significant first; limb 1 is the integer part.  Every float        *)
(* operation is the exact operation followed by rounding to 53             *)
(* significant bits, ties to even.                                         *)
(***************************************************************************)
LimbBits == 10
LimbBase == 2 ^ LimbBits
NumLimbs == 11
FxZero == [i \in 1..NumLimbs |-> 0]

\* the next n limbs of the binary expansion of r/d (r < d < 2^21), followed
\* by the remainder that is left
RECURSIVE Expand(_, _, _)
Expand(r, d, n) ==
  IF n = 0 THEN <<r>>
  ELSE <<(r * LimbBase) \div d>> \o Expand((r * LimbBase) % d, d, n - 1)

\* k/d cut to the fixed-point grid: v the limbs, st whether anything was cut
FxFromDecimal(k, d) ==
  LET e == Expand(k % d, d, NumLimbs - 1)
  IN  [v  |-> <<k \div d>> \o SubSeq(e, 1, NumLimbs - 1),
       st |-> e[NumLimbs] # 0]

RECURSIVE BitLen(_)
BitLen(n) == IF n = 0 THEN 0 ELSE 1 + BitLen(n \div 2)

\* a < b, a = b as fixed-point numbers
RECURSIVE FxLtFrom(_, _, _)
FxLtFrom(a, b, i) ==
  IF i > NumLimbs THEN FALSE
  ELSE IF a[i] # b[i] THEN a[i] < b[i]
  ELSE FxLtFrom(a, b, i + 1)

FxLt(a, b) == FxLtFrom(a, b, 1)
FxLe(a, b) == ~FxLt(b, a)

\* carry into limb i of a + b
RECURSIVE FxCarry(_, _, _)
FxCarry(a, b, i) ==
  IF i = NumLimbs THEN 0
  ELSE (a[i + 1] + b[i + 1] + FxCarry(a, b, i + 1)) \div LimbBase

FxAdd(a, b) ==
  [i \in 1..NumLimbs |->
     IF i = 1 THEN a[i] + b[i] + FxCarry(a, b, i)
     ELSE (a[i] + b[i] + FxCarry(a, b, i)) % LimbBase]

\* borrow out of limb i of a - b (a >= b)
RECURSIVE FxBorrow(_, _, _)
FxBorrow(a, b, i) ==
  IF i = NumLimbs THEN 0
  ELSE IF a[i + 1] - b[i + 1] - FxBorrow(a, b, i + 1) < 0 THEN 1 ELSE 0

FxSub(a, b) ==
  [i \in 1..NumLimbs |->
     (a[i] - b[i] - FxBorrow(a, b, i) + LimbBase) % LimbBase]

\* bit positions count from the most significant bit of limb 1, from 0
LimbOf(g) == (g \div LimbBits) + 1
WeightOf(g) == 2 ^ (LimbBits - 1 - (g % LimbBits))
FxBit(a, g) == (a[LimbOf(g)] \div WeightOf(g)) % 2
FxLowNonzero(a, g) ==
  \/ a[LimbOf(g)] % WeightOf(g) # 0
  \/ \E i \in (LimbOf(g) + 1)..NumLimbs : a[i] # 0
FxTrunc(a, g) ==
  [i \in 1..NumLimbs |->
     IF i < LimbOf(g) THEN a[i]
     ELSE IF i = LimbOf(g) THEN a[i] - (a[i] % WeightOf(g))
     ELSE 0]
FxUlp(g) == [i \in 1..NumLimbs |-> IF i = LimbOf(g) THEN WeightOf(g) ELSE 0]

FxLeadLimb(a) == CHOOSE i \in 1..NumLimbs : a[i] # 0 /\ \A j \in 1..(i - 1) : a[j] = 0
FxLeadBit(a) == LimbBits * (FxLeadLimb(a) - 1) + (LimbBits - BitLen(a[FxLeadLimb(a)]))

\* position of the last of the 53 significant bits of a
LastBit(a) == FxLeadBit(a) + 52

\* does rounding a (with st: a nonzero part below the grid) go up
RoundsUp(a, st) ==
  /\ a # FxZero
  /\ FxBit(a, LastBit(a) + 1) = 1
  /\ \/ FxLowNonzero(a, LastBit(a) + 1)
     \/ st
     \/ FxBit(a, LastBit(a)) = 1

\* is anything of a dropped by rounding to 53 bits
Inexact(a, st) ==
  a # FxZero /\ (st \/ FxLowNonzero(a, LastBit(a)))

Round53(a, st) ==
  IF a = FxZero THEN FxZero
  ELSE IF RoundsUp(a, st) THEN FxAdd(FxTrunc(a, LastBit(a)), FxUlp(LastBit(a)))
  ELSE FxTrunc(a, LastBit(a))

\* the float a decimal literal k/d denotes
Dbl(k, d) ==
  LET x == FxFromDecimal(k, d) IN Round53(x.v, x.st)

\* float addition
FAdd(a, b) == Round53(FxAdd(a, b), FALSE)

\* a - b >= t for floats a, b >= 0 and a float t > 0
DiffGe(a, b, t) == FxLe(b, a) /\ FxLe(t, Round53(FxSub(a, b), FALSE))

(***************************************************************************)
(* Glove readings.  A raw flexion is a float, here the float nearest to    *)
(* r / RawScale for an integer r; an Euler angle is a whole number of      *)
(* degrees.  A snapshot is [fingers |-> <<thumb, index, middle, ring,      *)
(* pinky>>, imu |-> <<Y, Z, X>>], the two arrays the driver returns.       *)
(***************************************************************************)
RawScale == 10 ^ 5
RoundScale == 10 ^ 4

\* the sign of (float nearest to k/d) - k/d
FloatError(k, d) ==
  LET x == FxFromDecimal(k, d)
  IN  IF RoundsUp(x.v, x.st) THEN 1
      ELSE IF Inexact(x.v, x.st) THEN -1
      ELSE 0

\* round(x, 4) of the float x nearest to r/RawScale, as a count of 1/RoundScale:
\* Python rounds the float's exact value correctly, a true tie to even
Round4(r) ==
  LET q == r \div 10
      d == r % 10
  IN  IF d < 5 THEN q
      ELSE IF d > 5 THEN q + 1
      ELSE IF FloatError(r, RawScale) > 0 THEN q + 1
      ELSE IF FloatError(r, RawScale) < 0 THEN q
      ELSE IF q % 2 = 0 THEN q ELSE q + 1

\* the float round(x, 4) returns
RoundedFlex(r) == Dbl(Round4(r), RoundScale)

\* the raw flexions the checked snapshots are made of
RawValues ==
  {0, 720, 5000, 8097, 8098, 24300, 25020, 29300, 30000, 60000, 90000}

\* round(x, 4) of each of them, computed once
Flex == [r \in RawValues |-> RoundedFlex(r)]

\* the literals of the gesture rules
T243 == Dbl(243, 1000)
T04049 == Dbl(4049, 100000)
T12146 == Dbl(12146, 100000)
T222672 == Dbl(222672, 100000)
T080972 == Dbl(80972, 1000000)

thumb(s) == Flex[s.fingers[1]]
index(s) == Flex[s.fingers[2]]
middle(s) == Flex[s.fingers[3]]
ring(s) == Flex[s.fingers[4]]
pinky(s) == Flex[s.fingers[5]]
\* Lhand / Rhand: the sum, added left to right
hand(s) == FAdd(FAdd(FAdd(FAdd(thumb(s), index(s)), middle(s)), ring(s)), pinky(s))
X(s) == s.imu[3]
Z(s) == s.imu[2]
Y(s) == s.imu[1]

LThumbsUp(s) ==
  /\ DiffGe(index(s), thumb(s), T243) /\ DiffGe(middle(s), thumb(s), T243)
  /\ DiffGe(ring(s), thumb(s), T243) /\ DiffGe(pinky(s), thumb(s), T243)
  /\ Y(s) >= 60

LPeace(s) ==
  /\ DiffGe(ring(s), middle(s), T243) /\ DiffGe(pinky(s), index(s), T243)
  /\ FxLe(T04049, thumb(s))

LGoBulls(s) ==
  /\ DiffGe(middle(s), index(s), T243) /\ DiffGe(ring(s), pinky(s), T243)
  /\ FxLe(index(s), T243) /\ FxLe(pinky(s), T243)
  /\ (0 >= X(s) /\ X(s) >= -120) /\ (25 >= Y(s) /\ Y(s) >= -25)

LHalt(s) ==
  /\ FxLe(T12146, thumb(s)) /\ FxLe(T243, index(s)) /\ FxLe(T243, middle(s))
  /\ FxLe(T222672, hand(s))
  /\ (0 >= X(s) /\ X(s) >= -120) /\ (25 >= Y(s) /\ Y(s) >= -25)

LLandClosed(s) ==
  /\ FxLe(T080972, thumb(s)) /\ FxLe(T080972, index(s)) /\ FxLe(T080972, middle(s))
  /\ FxLe(T080972, ring(s)) /\ FxLe(T080972, pinky(s))
  /\ (-25 <= X(s) /\ X(s) <= 25) /\ (-25 <= Y(s) /\ Y(s) <= 25)

LLand(s) ==
  /\ FxLe(thumb(s), T080972) /\ FxLe(index(s), T080972) /\ FxLe(middle(s), T080972)
  /\ FxLe(ring(s), T080972) /\ FxLe(pinky(s), T080972)
  /\ (-25 <= X(s) /\ X(s) <= 25) /\ (-25 <= Y(s) /\ Y(s) <= 25)

RThumbsUp(s) ==
  /\ DiffGe(index(s), thumb(s), T243) /\ DiffGe(middle(s), thumb(s), T243)
  /\ DiffGe(ring(s), thumb(s), T243) /\ DiffGe(pinky(s), thumb(s), T243)
  /\ Y(s) <= -60

RPeace(s) ==
  /\ DiffGe(ring(s), middle(s), T243) /\ DiffGe(pinky(s), index(s), T243)
  /\ FxLe(T04049, thumb(s))

RGoBulls(s) ==
  /\ DiffGe(middle(s), index(s), T243) /\ DiffGe(ring(s), pinky(s), T243)
  /\ FxLe(index(s), T243) /\ FxLe(pinky(s), T243)
  /\ (0 >= X(s) /\ X(s) >= -120) /\ (25 >= Y(s) /\ Y(s) >= -25)

RHalt(s) ==
  /\ FxLe(T12146, thumb(s)) /\ FxLe(T243, index(s)) /\ FxLe(T243, middle(s))
  /\ FxLe(T222672, hand(s))
  /\ (0 >= X(s) /\ X(s) >= -120) /\ (25 >= Y(s) /\ Y(s) >= -25)

RLand(s) ==
  /\ FxLe(thumb(s), T080972) /\ FxLe(index(s), T080972) /\ FxLe(middle(s), T080972)
  /\ FxLe(ring(s), T080972) /\ FxLe(pinky(s), T080972)
  /\ (-25 <= X(s) /\ X(s) <= 25) /\ (-15 <= Y(s) /\ Y(s) <= 25)

\* the branch of the if / elif chain a snapshot takes
LeftGesture(s) ==
  IF LThumbsUp(s) THEN "THUMBS_UP"
  ELSE IF LPeace(s) THEN "PEACE"
  ELSE IF LGoBulls(s) THEN "GO_BULLS"
  ELSE IF LHalt(s) THEN "HALT"
  ELSE IF LLand(s) THEN "LAND"
  ELSE "NONE"

RightGesture(s) ==
  IF RThumbsUp(s) THEN "THUMBS_UP"
  ELSE IF RPeace(s) THEN "PEACE"
  ELSE IF RGoBulls(s) THEN "GO_BULLS"
  ELSE IF RHalt(s) THEN "HALT"
  ELSE IF RLand(s) THEN "LAND"
  ELSE "NONE"

GestureOf(h, s) == IF h = "left" THEN LeftGesture(s) ELSE RightGesture(s)

(***************************************************************************)
(* The program.  Threads: "main" (the module body and __main__), "calib"   *)
(* (t0), "status" (status_thread, a daemon), "left" and "right" (the hand  *)
(* loops).  "api" is a caller that constructs an HTTPClient of its own and *)
(* calls its methods one at a time.                                        *)
(***************************************************************************)
Threads == {"main", "calib", "status", "left", "right", "api"}
Hands == {"left", "right"}
Pollers == {"status", "left", "right"}
None == "None"
SessionIds == {"s1", "s2"}
AccessLevels == {None, "NOT_PILOT", "PILOT"}
InfoPhases == {"REST", "FLIGHT_PROCESSES_CHECK", "PREP", "LOGGING_START"}
\* "" is a reply without a flightPhase, "UNKNOWN" any phase takeoff() has no branch for
Phases == {""} \cup InfoPhases \cup {"READY_FOR_GROUND_TAKEOFF", "FLYING", "UNKNOWN"}
Methods == {"takeoff", "land", "set_skill", "update_pilot_status"}
Requests == {"authentication", "status", "set_fault_override/2", "set_fault_override/3",
             "ground_takeoff", "land", "active_faults", "set_skill"}
\* what the api caller's current call is tallied by: the requests it sent and
\* the phases its polls (the replies whose flightPhase is read) reported
Events == Requests \cup {"phase:" \o p : p \in Phases}

\* most status requests one call of the api caller makes, most calls it makes
MaxStatus == 6
MaxCalls == 2

VARIABLES
  pilot,         \* HTTPClient(pilot=...)
  access_token, access_level, session_id,   \* the HTTPClient's fields
  pc,            \* where each thread is
  stack,         \* each thread's return addresses inside the client
  reqSid,        \* the sessionId in the args of a thread's status request
  response,      \* the flightPhase of the status reply a thread last got
  phase,         \* land()'s local phase
  gesture,       \* the branch of the gesture chain a hand loop is in ("NONE": in none)
  initial, neutralL, neutralR, previous,    \* calibrate()'s locals
  homed,         \* whether each glove's zero reference has been set
  sinceDisc,     \* land() calls of a hand loop since its last disconnection (-1: none pending)
  sent,          \* the kinds of request ever sent
  applied,       \* the sessionId of the status reply stored last
  carried,       \* the sessionIds status replies carried
  tally,         \* events of the api caller's current call, counted
  lastEvent,     \* the last of them
  method,        \* the method the api caller called last
  outcome,       \* how that call ended
  calls,         \* the calls it made
  cHand, cSnap, cOut,   \* a snapshot given to a hand's gesture chain, and the result
  landSince      \* whether the other hand's land() began during a hand's current takeoff()

session == <<access_token, access_level, session_id>>
control == <<pc, stack, outcome>>
locals == <<reqSid, response, phase>>
calibration == <<initial, neutralL, neutralR, previous, homed>>
record == <<tally, lastEvent>>
caller == <<method, calls>>
classify == <<cHand, cSnap, cOut>>
vars == <<pilot, session, control, locals, gesture, calibration, sinceDisc, sent,
          applied, carried, record, caller, classify, landSince>>

\* ---- control flow --------------------------------------------------------
Going(t, p) ==
  /\ pc' = [pc EXCEPT ![t] = p]
  /\ UNCHANGED <<stack, outcome>>

Calling(t, entry, back) ==
  /\ pc' = [pc EXCEPT ![t] = entry]
  /\ stack' = [stack EXCEPT ![t] = <<back>> \o @]
  /\ UNCHANGED outcome

Returning(t) ==
  /\ pc' = [pc EXCEPT ![t] = Head(stack[t])]
  /\ stack' = [stack EXCEPT ![t] = Tail(@)]
  /\ outcome' = IF t = "api" /\ Len(stack[t]) = 1 THEN "returned" ELSE outcome

\* an exception no handler of the thread catches: the thread ends (the api
\* caller gets the exception)
Raising(t) ==
  /\ pc' = [pc EXCEPT ![t] = IF t = "api" THEN "idle" ELSE "dead"]
  /\ stack' = [stack EXCEPT ![t] = <<>>]
  /\ outcome' = IF t = "api" THEN "raised" ELSE outcome

\* ---- requests ------------------------------------------------------------
Tallied(t, e) ==
  /\ tally' = IF t = "api" THEN [tally EXCEPT ![e] = @ + 1] ELSE tally
  /\ lastEvent' = IF t = "api" THEN e ELSE lastEvent

\* the three kinds of request: authentication, the status refresh, and the rest
KindOf(endpoint) ==
  IF endpoint \in {"authentication", "status"} THEN endpoint ELSE "command"

\* request_json(endpoint, ...) is entered: the request goes out
Sending(t, endpoint) ==
  /\ sent' = sent \cup {KindOf(endpoint)}
  /\ Tallied(t, endpoint)

NoRequest == UNCHANGED <<sent, tally, lastEvent>>

\* the process runs until the main thread and every non-daemon thread have ended
ProcessAlive ==
  \/ pc["main"] \notin {"off", "aborted", "exited"}
  \/ \E t \in {"calib", "left", "right"} : pc[t] \notin {"idle", "done", "dead"}

\* ---- HTTPClient -----------------------------------------------------------
\* _authenticate: does the client give up after the reply (sys.exit(1))
AuthExitsNever(p, level) == FALSE
AuthExits(p, level) == p /\ level # "PILOT"

\* HTTPClient(...): __init__ and _authenticate, by the thread that constructs it.
\* A failed request raises out of the constructor and the process ends.
Authenticate(t) ==
  /\ pc[t] = "construct"
  /\ Sending(t, "authentication")
  /\ \E ok \in BOOLEAN, level \in AccessLevels :
       IF ~ok
       THEN /\ pc' = [pc EXCEPT ![t] = "aborted"]
            /\ UNCHANGED session
       ELSE /\ access_level' = level
            /\ UNCHANGED session_id
            /\ IF AuthExits(pilot, level)
               THEN /\ pc' = [pc EXCEPT ![t] = "aborted"]
                    /\ UNCHANGED access_token
               ELSE /\ pc' = [pc EXCEPT ![t] = IF t = "main" THEN "start_status" ELSE "idle"]
                    /\ access_token' = "token"
  /\ UNCHANGED <<pilot, stack, outcome, locals, gesture, calibration, sinceDisc,
                 applied, carried, caller, classify, landSince>>

\* update_pilot_status, up to the request: args takes the session_id there
\* is, and the request goes out
StatusRequest(t) ==
  /\ t = "api" => tally["status"] < MaxStatus
  /\ reqSid' = [reqSid EXCEPT ![t] = session_id]
  /\ Sending(t, "status")

\* update_pilot_status called by the api caller itself
UpdatePilotStatus(t) ==
  /\ pc[t] = "ups_entry"
  /\ StatusRequest(t)
  /\ Going(t, "ups_wait")
  /\ UNCHANGED <<pilot, session, response, phase, gesture, calibration, sinceDisc,
                 applied, carried, caller, classify, landSince>>

\* self.session_id = response['sessionId']
KeptSessionId(old, sid) == IF old = None THEN sid ELSE old
NewSessionId(old, sid) == sid

\* does the caller that update_pilot_status returns to read the flightPhase
ReadsPhase(t) == Head(stack[t]) \in {"tk_phase", "ld_phase"}

\* a reply handling that drops the stored sessionId when the request fails
StatusReplyForgets(t) ==
  /\ pc[t] = "ups_wait"
  /\ reqSid' = [reqSid EXCEPT ![t] = None]
  /\ \/ /\ Raising(t)
        /\ session_id' = None
        /\ UNCHANGED <<applied, carried, response, tally, lastEvent>>
     \/ \E sid \in SessionIds, ph \in Phases :
          /\ session_id' = NewSessionId(session_id, sid)
          /\ applied' = sid
          /\ carried' = carried \cup {sid}
          /\ response' = [response EXCEPT ![t] = IF ReadsPhase(t) THEN ph ELSE @]
          /\ IF ReadsPhase(t) THEN Tallied(t, "phase:" \o ph)
             ELSE UNCHANGED <<tally, lastEvent>>
          /\ Returning(t)
  /\ UNCHANGED <<pilot, access_token, access_level, phase, gesture, calibration,
                 sinceDisc, sent, caller, classify, landSince>>

\* update_pilot_status, from the reply on: request_json raises, or the reply's
\* sessionId is stored and the reply returned
StatusReply(t) ==
  /\ pc[t] = "ups_wait"
  /\ reqSid' = [reqSid EXCEPT ![t] = None]
  /\ \/ /\ Raising(t)
        /\ UNCHANGED <<session_id, applied, carried, response, tally, lastEvent>>
     \/ \E sid \in SessionIds, ph \in Phases :
          /\ session_id' = NewSessionId(session_id, sid)
          /\ applied' = sid
          /\ carried' = carried \cup {sid}
          /\ response' = [response EXCEPT ![t] = IF ReadsPhase(t) THEN ph ELSE @]
          /\ IF ReadsPhase(t) THEN Tallied(t, "phase:" \o ph)
             ELSE UNCHANGED <<tally, lastEvent>>
          /\ Returning(t)
  /\ UNCHANGED <<pilot, access_token, access_level, phase, gesture, calibration,
                 sinceDisc, sent, caller, classify, landSince>>

\* the check takeoff, land and set_skill start with: self.access_level != 'PILOT'
RefusesUnset(level) == level = None
Refuses(level) == level # "PILOT"

\* takeoff: the pilot check and the first status refresh
Takeoff(t) ==
  /\ pc[t] = "tk_entry"
  /\ IF Refuses(access_level)
     THEN Returning(t) /\ NoRequest /\ UNCHANGED reqSid
     ELSE StatusRequest(t) /\ Calling(t, "ups_wait", "df_2")
  /\ UNCHANGED <<pilot, session, response, phase, gesture, calibration, sinceDisc,
                 applied, carried, caller, classify, landSince>>

\* disable_faults: one override request for each fault id, 2 then 3
DisableFaultsFirstOnly(t) ==
  /\ pc[t] \in {"df_2", "df_3"}
  /\ Sending(t, IF pc[t] = "df_2" THEN "set_fault_override/2" ELSE "set_fault_override/3")
  /\ \/ Going(t, "tk_sleep")
     \/ Raising(t)
  /\ UNCHANGED <<pilot, session, locals, gesture, calibration, sinceDisc,
                 applied, carried, caller, classify, landSince>>

DisableFaults(t) ==
  /\ pc[t] \in {"df_2", "df_3"}
  /\ Sending(t, IF pc[t] = "df_2" THEN "set_fault_override/2" ELSE "set_fault_override/3")
  /\ \/ Going(t, IF pc[t] = "df_2" THEN "df_3" ELSE "tk_sleep")
     \/ Raising(t)
  /\ UNCHANGED <<pilot, session, locals, gesture, calibration, sinceDisc,
                 applied, carried, caller, classify, landSince>>

\* takeoff's loop: sleep(2), then the status poll
TakeoffPoll(t) ==
  /\ pc[t] = "tk_sleep"
  /\ StatusRequest(t)
  /\ Calling(t, "ups_wait", "tk_phase")
  /\ UNCHANGED <<pilot, session, response, phase, gesture, calibration, sinceDisc,
                 applied, carried, caller, classify, landSince>>

\* what takeoff's loop does with the phase it polled
TakeoffBranchSilent(ph) ==
  IF ph = "" THEN "continue"
  ELSE IF ph = "FLYING" THEN "return"
  ELSE IF ph \in InfoPhases \cup {"READY_FOR_GROUND_TAKEOFF"} THEN "print"
  ELSE "active_faults"

TakeoffBranchEager(ph) ==
  IF ph = "" THEN "continue"
  ELSE IF ph \in {"READY_FOR_GROUND_TAKEOFF", "PREP"} THEN "ground_takeoff"
  ELSE IF ph = "FLYING" THEN "return"
  ELSE IF ph \in InfoPhases THEN "print"
  ELSE "active_faults"

TakeoffBranchGivesUp(ph) ==
  IF ph = "" THEN "continue"
  ELSE IF ph = "READY_FOR_GROUND_TAKEOFF" THEN "ground_takeoff"
  ELSE IF ph = "FLYING" THEN "return"
  ELSE IF ph \in InfoPhases THEN "print"
  ELSE "return"

TakeoffBranch(ph) ==
  IF ph = "" THEN "continue"
  ELSE IF ph = "READY_FOR_GROUND_TAKEOFF" THEN "ground_takeoff"
  ELSE IF ph = "FLYING" THEN "return"
  ELSE IF ph \in InfoPhases THEN "print"
  ELSE "active_faults"

TakeoffPhase(t) ==
  /\ pc[t] = "tk_phase"
  /\ response' = [response EXCEPT ![t] = ""]
  /\ LET b == TakeoffBranch(response[t])
     IN  \/ /\ b \in {"continue", "print"}
            /\ NoRequest
            /\ Going(t, "tk_sleep")
         \/ /\ b \in {"ground_takeoff", "active_faults"}
            /\ Sending(t, b)
            /\ (Going(t, "tk_sleep") \/ Raising(t))
         \/ /\ b = "return"
            /\ NoRequest
            /\ Returning(t)
  /\ UNCHANGED <<pilot, session, reqSid, phase, gesture, calibration, sinceDisc,
                 applied, carried, caller, classify, landSince>>

\* a hand loop is inside the client.takeoff() of its THUMBS_UP branch
TakingOff(h) == stack[h] # <<>> /\ gesture[h] = "THUMBS_UP"

\* land: the pilot check, and phase = 'FLYING'
LandPollsFirst(t) ==
  /\ pc[t] = "ld_entry"
  /\ sinceDisc' = IF t \in Hands /\ sinceDisc[t] \in {0, 1}
                  THEN [sinceDisc EXCEPT ![t] = @ + 1] ELSE sinceDisc
  /\ IF Refuses(access_level)
     THEN Returning(t) /\ UNCHANGED phase
     ELSE Going(t, "ld_sleep") /\ phase' = [phase EXCEPT ![t] = "FLYING"]
  /\ landSince' = [o \in Hands |-> landSince[o] \/ (t \in Hands \ {o} /\ TakingOff(o))]
  /\ NoRequest
  /\ UNCHANGED <<pilot, session, reqSid, response, gesture, calibration,
                 applied, carried, caller, classify>>

Land(t) ==
  /\ pc[t] = "ld_entry"
  /\ sinceDisc' = IF t \in Hands /\ sinceDisc[t] \in {0, 1}
                  THEN [sinceDisc EXCEPT ![t] = @ + 1] ELSE sinceDisc
  /\ IF Refuses(access_level)
     THEN Returning(t) /\ UNCHANGED phase
     ELSE Going(t, "ld_loop") /\ phase' = [phase EXCEPT ![t] = "FLYING"]
  /\ landSince' = [o \in Hands |-> landSince[o] \/ (t \in Hands \ {o} /\ TakingOff(o))]
  /\ NoRequest
  /\ UNCHANGED <<pilot, session, reqSid, response, gesture, calibration,
                 applied, carried, caller, classify>>

\* does land's loop go round once more
LandContinues(ph) == ph = "FLYING"

\* land's loop: while phase == 'FLYING', the land command
LandCommand(t) ==
  /\ pc[t] = "ld_loop"
  /\ \/ /\ LandContinues(phase[t])
        /\ Sending(t, "land")
        /\ (Going(t, "ld_sleep") \/ Raising(t))
        /\ UNCHANGED phase
     \/ /\ ~LandContinues(phase[t])
        /\ NoRequest
        /\ Returning(t)
        /\ phase' = [phase EXCEPT ![t] = ""]
  /\ UNCHANGED <<pilot, session, reqSid, response, gesture, calibration, sinceDisc,
                 applied, carried, caller, classify, landSince>>

\* land's loop: sleep(1), then the status poll
LandPoll(t) ==
  /\ pc[t] = "ld_sleep"
  /\ StatusRequest(t)
  /\ Calling(t, "ups_wait", "ld_phase")
  /\ UNCHANGED <<pilot, session, response, phase, gesture, calibration, sinceDisc,
                 applied, carried, caller, classify, landSince>>

\* land's loop: an empty new_phase leaves phase as it is
LandPhaseTakesEmpty(t) ==
  /\ pc[t] = "ld_phase"
  /\ phase' = [phase EXCEPT ![t] = response[t]]
  /\ response' = [response EXCEPT ![t] = ""]
  /\ Going(t, "ld_loop")
  /\ NoRequest
  /\ UNCHANGED <<pilot, session, reqSid, gesture, calibration, sinceDisc,
                 applied, carried, caller, classify, landSince>>

LandPhase(t) ==
  /\ pc[t] = "ld_phase"
  /\ phase' = [phase EXCEPT ![t] = IF response[t] = "" THEN @ ELSE response[t]]
  /\ response' = [response EXCEPT ![t] = ""]
  /\ Going(t, "ld_loop")
  /\ NoRequest
  /\ UNCHANGED <<pilot, session, reqSid, gesture, calibration, sinceDisc,
                 applied, carried, caller, classify, landSince>>

SetSkill(t) ==
  /\ pc[t] = "sk_entry"
  /\ IF Refuses(access_level)
     THEN Returning(t) /\ NoRequest
     ELSE Sending(t, "set_skill") /\ (Returning(t) \/ Raising(t))
  /\ UNCHANGED <<pilot, session, locals, gesture, calibration, sinceDisc,
                 applied, carried, caller, classify, landSince>>

ClientStep(t) ==
  \/ StatusReply(t)
  \/ Takeoff(t) \/ DisableFaults(t) \/ TakeoffPoll(t) \/ TakeoffPhase(t)
  \/ Land(t) \/ LandCommand(t) \/ LandPoll(t) \/ LandPhase(t)

\* ---- the api caller --------------------------------------------------------
EntryOf(m) ==
  CASE m = "takeoff" -> "tk_entry"
    [] m = "land" -> "ld_entry"
    [] m = "set_skill" -> "sk_entry"
    [] m = "update_pilot_status" -> "ups_entry"

ApiCall ==
  /\ pc["api"] = "idle"
  /\ calls < MaxCalls
  /\ \E m \in Methods :
       /\ method' = m
       /\ pc' = [pc EXCEPT !["api"] = EntryOf(m)]
  /\ calls' = calls + 1
  /\ stack' = [stack EXCEPT !["api"] = <<"idle">>]
  /\ outcome' = "running"
  /\ tally' = [e \in Events |-> 0]
  /\ lastEvent' = "none"
  /\ UNCHANGED <<pilot, session, locals, gesture, calibration, sinceDisc, sent,
                 applied, carried, classify, landSince>>

\* ---- the module body and __main__ ------------------------------------------
ScriptRest == <<pilot, session, stack, outcome, locals, gesture, calibration,
                sinceDisc, sent, applied, carried, record, caller, classify, landSince>>

\* status_thread.start() (the glove handles are created next)
StartStatusThread ==
  /\ pc["main"] = "start_status"
  /\ pc' = [pc EXCEPT !["main"] = "start_calib", !["status"] = "ka_loop"]
  /\ UNCHANGED ScriptRest

\* t0.start()
StartCalibration ==
  /\ pc["main"] = "start_calib"
  /\ pc' = [pc EXCEPT !["main"] = "join_calib", !["calib"] = "c_loop"]
  /\ UNCHANGED ScriptRest

\* t0.join(); sleep(3)
JoinCalibrationNoWait ==
  /\ pc["main"] = "join_calib"
  /\ pc' = [pc EXCEPT !["main"] = "start_left"]
  /\ UNCHANGED ScriptRest

JoinCalibration ==
  /\ pc["main"] = "join_calib"
  /\ pc["calib"] = "done"
  /\ pc' = [pc EXCEPT !["main"] = "start_left"]
  /\ UNCHANGED ScriptRest

\* left.start(), right.start()
StartHand ==
  /\ \/ /\ pc["main"] = "start_left"
        /\ pc' = [pc EXCEPT !["main"] = "start_right", !["left"] = "h_loop"]
     \/ /\ pc["main"] = "start_right"
        /\ pc' = [pc EXCEPT !["main"] = "join_left", !["right"] = "h_loop"]
  /\ UNCHANGED ScriptRest

\* left.join(), right.join(), and the end of the main thread
JoinHand ==
  /\ \/ /\ pc["main"] = "join_left"
        /\ pc["left"] = "dead"
        /\ pc' = [pc EXCEPT !["main"] = "join_right"]
     \/ /\ pc["main"] = "join_right"
        /\ pc["right"] = "dead"
        /\ pc' = [pc EXCEPT !["main"] = "exited"]
  /\ UNCHANGED ScriptRest

\* the operator's interrupt: KeyboardInterrupt is raised in the main thread,
\* which has no handler for it, and in no other thread
Interrupt ==
  /\ pc["main"] \notin {"off", "aborted", "exited"}
  /\ pc' = [pc EXCEPT !["main"] = "exited"]
  /\ UNCHANGED ScriptRest

\* update_loop: client.update_pilot_status(), then sleep(2); the thread is a
\* daemon and ends with the process
UpdateLoop ==
  /\ ProcessAlive
  /\ \/ /\ pc["status"] = "ka_loop"
        /\ StatusRequest("status")
        /\ Calling("status", "ups_wait", "ka_sleep")
     \/ /\ pc["status"] = "ka_sleep"
        /\ Going("status", "ka_loop")
        /\ NoRequest
        /\ UNCHANGED reqSid
  /\ UNCHANGED <<pilot, session, response, phase, gesture, calibration, sinceDisc,
                 applied, carried, caller, classify, landSince>>

\* ---- calibrate ---------------------------------------------------------------
\* the previous X, Y, Z of a hand before its first sample
SentinelZero == <<0, 0, 0>>
Sentinel == <<1000, 1000, 1000>>
\* the orientations <<Y, Z, X>> a glove is sampled at during calibration
CalibPoses == {<<0, 0, 0>>, <<10, 0, 0>>, <<0, 0, -11>>}

\* -10 <= a - b <= 10 on X, Y and Z
SteadyOnSomeAxis(cur, prev) ==
  \E i \in 1..3 : -10 <= cur[i] - prev[i] /\ cur[i] - prev[i] <= 10

Steady(cur, prev) ==
  \A i \in 1..3 : -10 <= cur[i] - prev[i] /\ cur[i] - prev[i] <= 10

CalibRest == <<pilot, session, stack, outcome, locals, gesture, sinceDisc, sent,
               applied, carried, record, caller, classify, landSince>>

\* the while test, and the first pass's block (initial == 0): the previous
\* values are set to 1000 before the haptics, which may find the gloves gone.
\* When the function returns its previous values are gone.
CalibrateLoop ==
  /\ pc["calib"] = "c_loop"
  /\ IF ~(neutralL = 0 /\ neutralR = 0)
     THEN /\ pc' = [pc EXCEPT !["calib"] = "done"]
          /\ previous' = [left |-> <<0, 0, 0>>, right |-> <<0, 0, 0>>]
          /\ UNCHANGED initial
     ELSE IF initial = 1
     THEN /\ pc' = [pc EXCEPT !["calib"] = "c_sample"]
          /\ UNCHANGED <<initial, previous>>
     ELSE /\ previous' = [left |-> Sentinel, right |-> Sentinel]
          /\ \/ /\ pc' = [pc EXCEPT !["calib"] = "c_sample"]
                /\ initial' = 1
             \/ /\ pc' = [pc EXCEPT !["calib"] = "c_disc"]
                /\ UNCHANGED initial
  /\ UNCHANGED <<neutralL, neutralR, homed>>
  /\ UNCHANGED CalibRest

\* sleep(1), the pulse, both gloves' Euler angles, the test and, when both
\* hands are steady, the commit; a glove may be found gone at any driver call
CalibrateSample ==
  /\ pc["calib"] = "c_sample"
  /\ \/ /\ pc' = [pc EXCEPT !["calib"] = "c_disc"]
        /\ UNCHANGED <<initial, neutralL, neutralR, previous, homed>>
     \/ \E l \in CalibPoses, r \in CalibPoses :
          IF Steady(l, previous.left) /\ Steady(r, previous.right)
          THEN \/ /\ homed' = [left |-> TRUE, right |-> TRUE]
                  /\ neutralL' = 1
                  /\ neutralR' = 1
                  /\ previous' = [left |-> l, right |-> r]
                  /\ pc' = [pc EXCEPT !["calib"] = "c_loop"]
                  /\ UNCHANGED initial
               \/ \E done \in {{}, {"left"}, {"left", "right"}} :
                    /\ homed' = [h \in Hands |-> h \in done \/ homed[h]]
                    /\ pc' = [pc EXCEPT !["calib"] = "c_disc"]
                    /\ UNCHANGED <<initial, neutralL, neutralR, previous>>
          ELSE /\ previous' = [left |-> l, right |-> r]
               /\ pc' = [pc EXCEPT !["calib"] = "c_loop"]
               /\ UNCHANGED <<initial, neutralL, neutralR, homed>>
  /\ UNCHANGED CalibRest

\* except GloveDisconnectedException: sleep(1)
CalibrateDisconnected ==
  /\ pc["calib"] = "c_disc"
  /\ pc' = [pc EXCEPT !["calib"] = "c_loop"]
  /\ UNCHANGED calibration
  /\ UNCHANGED CalibRest

\* ---- left_hand, right_hand -----------------------------------------------------
SnapThumbsUpL == [fingers |-> <<0, 30000, 30000, 30000, 30000>>, imu |-> <<60, 0, 0>>]
SnapThumbsUpR == [fingers |-> <<0, 30000, 30000, 30000, 30000>>, imu |-> <<-60, 0, 0>>]
SnapPeace == [fingers |-> <<5000, 0, 0, 30000, 30000>>, imu |-> <<0, 0, 0>>]
SnapGoBulls == [fingers |-> <<0, 0, 30000, 30000, 0>>, imu |-> <<0, 0, 0>>]
SnapHalt == [fingers |-> <<60000, 60000, 60000, 60000, 60000>>, imu |-> <<0, 0, 0>>]
SnapLand == [fingers |-> <<0, 0, 0, 0, 0>>, imu |-> <<0, 0, 0>>]
SnapNone == [fingers |-> <<60000, 60000, 60000, 60000, 60000>>, imu |-> <<40, 0, 40>>]
\* the snapshots the hand loops sample
SampleSnaps ==
  {SnapThumbsUpL, SnapThumbsUpR, SnapPeace, SnapGoBulls, SnapHalt, SnapLand, SnapNone}

\* the branch each of them takes, computed once
GestureTable == [h \in Hands |-> [s \in SampleSnaps |-> GestureOf(h, s)]]

HandRest == <<pilot, session, locals, calibration, sent, applied, carried, record,
              caller, classify>>

\* what the branch of a gesture calls on the client
Dispatch(h, g) ==
  IF g = "LAND" THEN "land"
  ELSE IF g = "THUMBS_UP" /\ h = "right" THEN "takeoff"
  ELSE "nothing"

\* one pass of the loop: the haptic waves are selected, the fingers and the
\* Euler angles read, the chain evaluated and, in the branch taken, the haptic
\* pulse given and the client called.  Any driver call may find the glove gone.
HandSampleInTurn(h) ==
  /\ pc[h] = "h_loop"
  /\ \A o \in Hands \ {h} : stack[o] = <<>>
  /\ \/ /\ Going(h, "h_disc")
        /\ sinceDisc' = [sinceDisc EXCEPT ![h] = 0]
        /\ UNCHANGED gesture
     \/ \E s \in SampleSnaps :
          LET g == GestureTable[h][s]
          IN  /\ gesture' = [gesture EXCEPT ![h] = g]
              /\ sinceDisc' = [sinceDisc EXCEPT ![h] = -1]
              /\ IF g = "NONE" THEN Going(h, "h_loop")
                 ELSE IF Dispatch(h, g) = "nothing" THEN Going(h, "h_sleep")
                 ELSE Calling(h, EntryOf(Dispatch(h, g)), "h_sleep")
  /\ UNCHANGED <<HandRest, landSince>>

HandSample(h) ==
  /\ pc[h] = "h_loop"
  /\ \/ /\ Going(h, "h_disc")
        /\ sinceDisc' = [sinceDisc EXCEPT ![h] = 0]
        /\ UNCHANGED gesture
     \/ \E s \in SampleSnaps :
          LET g == GestureTable[h][s]
          IN  /\ gesture' = [gesture EXCEPT ![h] = g]
              /\ sinceDisc' = [sinceDisc EXCEPT ![h] = -1]
              /\ IF g = "NONE" THEN Going(h, "h_loop")
                 ELSE IF Dispatch(h, g) = "nothing" THEN Going(h, "h_sleep")
                 ELSE Calling(h, EntryOf(Dispatch(h, g)), "h_sleep")
  /\ UNCHANGED <<HandRest, landSince>>

\* the sleep(2) that ends a gesture's branch
HandSleep(h) ==
  /\ pc[h] = "h_sleep"
  /\ Going(h, "h_loop")
  /\ gesture' = [gesture EXCEPT ![h] = "NONE"]
  /\ UNCHANGED sinceDisc
  /\ landSince' = [landSince EXCEPT ![h] = FALSE]
  /\ UNCHANGED HandRest

\* except GloveDisconnectedException: the message and sleep(1)
HandDisconnected(h) ==
  /\ pc[h] = "h_disc"
  /\ Going(h, "h_failsafe")
  /\ UNCHANGED <<gesture, sinceDisc>>
  /\ UNCHANGED <<HandRest, landSince>>

\* what the handler does after its sleep: client.land(), then the next pass
FailSafeSkipped(h) == Going(h, "h_loop")
FailSafe(h) == Calling(h, "ld_entry", "h_loop")

HandFailSafe(h) ==
  /\ pc[h] = "h_failsafe"
  /\ FailSafe(h)
  /\ UNCHANGED <<gesture, sinceDisc>>
  /\ UNCHANGED <<HandRest, landSince>>

\* ---- a snapshot put through a hand's gesture chain ------------------------------
ClassifyFingers ==
  {<<a, b, c, d, e>> : a \in {0, 5000, 60000}, b \in {0, 30000}, c \in {0, 30000, 60000},
                       d \in {0, 30000, 60000}, e \in {0, 30000, 60000}}
  \cup {<<t, t + 24300, t + 24300, t + 24300, t + 24300>> : t \in {0, 720, 5000}}
  \cup {<<5000, 0, 30000, 60000, 24300>>, <<90000, 24300, 90000, 90000, 0>>}
  \cup {<<t, t, t, t, t>> : t \in {8097, 8098}} \cup {<<8097, 0, 0, 0, 0>>}
ClassifyImus ==
  {<<0, 0, 0>>, <<60, 0, 0>>, <<-60, 0, 0>>, <<59, 0, 0>>, <<-59, 0, 0>>,
   <<-20, 0, 0>>, <<-20, 0, -30>>, <<40, 0, 40>>}
ClassifySnaps == {[fingers |-> f, imu |-> i] : f \in ClassifyFingers, i \in ClassifyImus}

Classify ==
  /\ cOut = "unclassified"
  /\ cOut' = GestureOf(cHand, cSnap)
  /\ UNCHANGED <<cHand, cSnap>>
  /\ UNCHANGED <<pilot, session, control, locals, gesture, calibration, sinceDisc,
                 sent, applied, carried, record, caller, landSince>>

\* ---- specifications ----------------------------------------------------------
InitProgram ==
  /\ access_token = None
  /\ session_id = None
  /\ access_level = None
  /\ stack = [t \in Threads |-> <<>>]
  /\ reqSid = [t \in Threads |-> None]
  /\ response = [t \in Threads |-> ""]
  /\ phase = [t \in Threads |-> ""]
  /\ gesture = [h \in Hands |-> "NONE"]
  /\ initial = 0
  /\ neutralL = 0
  /\ neutralR = 0
  /\ previous = [left |-> <<0, 0, 0>>, right |-> <<0, 0, 0>>]
  /\ homed = [left |-> FALSE, right |-> FALSE]
  /\ sinceDisc = [h \in Hands |-> -1]
  /\ landSince = [h \in Hands |-> FALSE]
  /\ sent = {}
  /\ applied = None
  /\ carried = {}
  /\ tally = [e \in Events |-> 0]
  /\ lastEvent = "none"
  /\ method = "none"
  /\ outcome = "none"
  /\ calls = 0

\* HEDO.py run as a script: client = HTTPClient(..., pilot=True, ...)
Init ==
  /\ InitProgram
  /\ pilot = TRUE
  /\ pc = [t \in Threads |-> IF t = "main" THEN "construct"
                             ELSE IF t = "api" THEN "off" ELSE "idle"]
  /\ cHand = "left" /\ cSnap = SnapNone /\ cOut = "off"

Next ==
  \/ Authenticate("main")
  \/ StartStatusThread \/ StartCalibration \/ JoinCalibration
  \/ StartHand \/ JoinHand \/ Interrupt
  \/ UpdateLoop
  \/ CalibrateLoop \/ CalibrateSample \/ CalibrateDisconnected
  \/ \E h \in Hands :
       HandSample(h) \/ HandSleep(h) \/ HandDisconnected(h) \/ HandFailSafe(h)
  \/ \E t \in Pollers : ClientStep(t)

Spec == Init /\ [][Next]_vars

\* an HTTPClient constructed and called by one caller
InitClient ==
  /\ InitProgram
  /\ pilot \in BOOLEAN
  /\ pc = [t \in Threads |-> IF t = "api" THEN "construct"
                             ELSE IF t = "main" THEN "off" ELSE "idle"]
  /\ cHand = "left" /\ cSnap = SnapNone /\ cOut = "off"

NextClient ==
  \/ Authenticate("api")
  \/ ApiCall
  \/ UpdatePilotStatus("api")
  \/ ClientStep("api")
  \/ SetSkill("api")

SpecClient == InitClient /\ [][NextClient]_vars

\* the gesture chains alone
InitClassify ==
  /\ InitProgram
  /\ pilot = TRUE
  /\ pc = [t \in Threads |-> IF t \in {"main", "api"} THEN "off" ELSE "idle"]
  /\ cHand \in Hands
  /\ cSnap \in ClassifySnaps
  /\ cOut = "unclassified"

NextClassify == Classify

SpecClassify == InitClassify /\ [][NextClassify]_vars

(***************************************************************************)
(* The claims.                                                             *)
(***************************************************************************)

\* C1: in each hand loop a disconnection is followed by exactly one call of
\* land() before the loop samples the glove again: whenever a hand loop is about
\* to sample, land() has been called once since the last disconnection, if any.
C1_FailSafeLandsOnce ==
  \A h \in Hands : pc[h] = "h_loop" => sinceDisc[h] \in {-1, 1}

\* both hand loops are back at sampling after a disconnection and its land()
C1_Witness ==
  \A h \in Hands : pc[h] = "h_loop" /\ sinceDisc[h] = 1

\* C2: in a pilot session takeoff() has sent one ground_takeoff command for each
\* of its polls that reported READY_FOR_GROUND_TAKEOFF, and the poll that reports
\* FLYING is the last thing it does: it returns then, with no request after it,
\* and returns no other way.
C2_TakeoffCommands ==
  (method = "takeoff" /\ access_level = "PILOT") =>
    /\ tally["phase:READY_FOR_GROUND_TAKEOFF"]
         = tally["ground_takeoff"]
           + (IF pc["api"] = "tk_phase" /\ response["api"] = "READY_FOR_GROUND_TAKEOFF"
              THEN 1 ELSE 0)
    /\ tally["phase:FLYING"] <= 1
    /\ tally["phase:FLYING"] = 1 =>
         pc["api"] \in {"tk_phase", "idle"} /\ lastEvent = "phase:FLYING"
    /\ (pc["api"] = "idle" /\ outcome = "returned") => tally["phase:FLYING"] = 1

\* takeoff() has returned after polls reporting REST, PREP, READY, READY, FLYING
C2_Witness ==
  /\ method = "takeoff" /\ access_level = "PILOT" /\ outcome = "returned"
  /\ tally["phase:REST"] = 1 /\ tally["phase:PREP"] = 1
  /\ tally["phase:READY_FOR_GROUND_TAKEOFF"] = 2 /\ tally["phase:FLYING"] = 1
  /\ tally["ground_takeoff"] = 2

\* land() has returned in a pilot session and its polls reported FLYING, FLYING, REST
LandScript ==
  /\ method = "land" /\ access_level = "PILOT" /\ outcome = "returned"
  /\ tally["phase:FLYING"] = 2 /\ tally["phase:REST"] = 1
  /\ \A p \in Phases \ {"FLYING", "REST"} : tally["phase:" \o p] = 0

\* C3, as stated: when the polls of land() report FLYING, FLYING, REST it sends
\* exactly two land commands and returns upon REST.
C3_LandTwo ==
  LandScript => tally["land"] = 2 /\ lastEvent = "phase:REST"

\* C3, amended: when the polls of land() report FLYING, FLYING, REST it sends
\* exactly three land commands (one before its first poll, one after each poll
\* that reports FLYING) and returns upon REST.
C3_LandThree ==
  LandScript => tally["land"] = 3 /\ lastEvent = "phase:REST"

C3_Witness ==
  LandScript /\ tally["land"] = 3 /\ tally["status"] = 3

\* C4: when access_level is not PILOT, takeoff(), land() and set_skill() return
\* at once: the step sends no request and changes no field of the client.
C4_RefusalStep ==
  [][(pc["api"] \in {"tk_entry", "ld_entry", "sk_entry"} /\ access_level # "PILOT")
       => /\ pc'["api"] = "idle" /\ outcome' = "returned"
          /\ UNCHANGED <<access_token, access_level, session_id, sent, tally,
                         lastEvent, reqSid, applied, carried>>]_vars

\* two calls were refused in a session below PILOT, nothing but the
\* authentication was ever sent
C4_Witness ==
  /\ access_level = "NOT_PILOT" /\ method \in {"takeoff", "land", "set_skill"}
  /\ calls = 2 /\ outcome = "returned" /\ pc["api"] = "idle"
  /\ sent = {"authentication"}

\* C5: if the authentication fails or does not grant PILOT, the process ends
\* at once: the keepalive thread, the calibration and the hand loops are never
\* started and no status or command request is ever sent.
C5_AbortsBeforeStart ==
  (pc["main"] # "construct" /\ (access_token = None \/ access_level # "PILOT")) =>
    /\ pc["main"] \in {"aborted", "exited"}
    /\ \A t \in {"status", "calib", "left", "right"} : pc[t] = "idle"
    /\ sent \subseteq {"authentication"}

\* the server answered the authentication with a level below PILOT
C5_Witness ==
  pc["main"] = "aborted" /\ access_level = "NOT_PILOT" /\ sent = {"authentication"}

\* C6: the keepalive loop keeps refreshing for the life of the process: while
\* the process is alive and the keepalive thread was started, the thread has
\* not ended.
C6_KeepaliveRuns ==
  (ProcessAlive /\ pc["main"] \notin {"construct", "start_status"}) =>
    pc["status"] # "dead"

\* C7: an error of a request made from the keepalive loop or from a hand loop
\* is caught at that loop, never ending its thread.
C7_ErrorsCaught ==
  [][\A t \in Pollers : pc[t] # "dead" => pc'[t] # "dead"]_vars

\* C8: session_id is the sessionId of the response applied last, and is unset
\* or a sessionId some status response carried.
C8_SessionId ==
  /\ session_id = applied
  /\ session_id = None \/ session_id \in carried

\* the keepalive loop and the right hand's takeoff() have both had replies
\* applied, and no status request is in progress
C8_Witness ==
  /\ session_id = "s2" /\ carried = SessionIds
  /\ pc["status"] = "ka_sleep" /\ pc["right"] = "tk_sleep" /\ pc["left"] = "ld_loop"

\* C9: no two threads have a status request in progress at once, between
\* reading session_id for the request and storing the reply's sessionId.
C9_Serialized ==
  Cardinality({t \in Pollers : pc[t] = "ups_wait"}) <= 1

\* the flexion of finger i less the thumb's, of the readings as rounded to four
\* places, in units of 1/RoundScale
RoundedDifference(s, i) == Round4(s.fingers[i]) - Round4(s.fingers[1])

\* C10: a snapshot whose four finger-thumb differences are exactly 0.243 and
\* whose yaw is exactly 60 (left hand) or -60 (right hand) is THUMBS_UP.
C10_BoundaryInclusive ==
  (/\ cOut \notin {"off", "unclassified"}
   /\ \A i \in 2..5 : RoundedDifference(cSnap, i) * 1000 = 243 * RoundScale
   /\ Y(cSnap) = IF cHand = "left" THEN 60 ELSE -60)
  => cOut = "THUMBS_UP"

\* a snapshot has been put through the chain of cHand
Classified == cOut \notin {"off", "unclassified"}

\* C11: the fully open palm (all five flexions 0.0, orientation 0, 0, 0) is
\* LAND for both hands and satisfies the rule of no other gesture.
C11_OpenPalmLands ==
  (Classified /\ cSnap = SnapLand) =>
    /\ cOut = "LAND"
    /\ ~LThumbsUp(cSnap) /\ ~LPeace(cSnap) /\ ~LGoBulls(cSnap) /\ ~LHalt(cSnap)
    /\ ~RThumbsUp(cSnap) /\ ~RPeace(cSnap) /\ ~RGoBulls(cSnap) /\ ~RHalt(cSnap)

\* the left hand's chain has classified the open palm
C11_Witness ==
  cHand = "left" /\ cSnap = SnapLand /\ cOut = "LAND"

\* a rounded flexion in millionths
Millionths(s, i) == Round4(s.fingers[i]) * (1000000 \div RoundScale)

\* C12: for either hand a snapshot that matches no earlier rule is LAND exactly
\* when all five flexions are <= 0.080972 and pitch and yaw are both within
\* [-25, 25].
C12_LandRule ==
  (Classified /\ cOut \in {"LAND", "NONE"}) =>
    (cOut = "LAND" <=>
       /\ \A i \in 1..5 : Millionths(cSnap, i) <= 80972
       /\ -25 <= X(cSnap) /\ X(cSnap) <= 25
       /\ -25 <= Y(cSnap) /\ Y(cSnap) <= 25)

\* the rules of the table, on the rounded flexions as decimal numbers
TableThumbsUp(h, s) ==
  /\ \A i \in 2..5 : Millionths(s, i) - Millionths(s, 1) >= 243000
  /\ IF h = "left" THEN Y(s) >= 60 ELSE Y(s) <= -60

TablePeace(s) ==
  /\ Millionths(s, 4) - Millionths(s, 3) >= 243000
  /\ Millionths(s, 5) - Millionths(s, 2) >= 243000
  /\ Millionths(s, 1) >= 40490

TableLevel(s) ==
  /\ -120 <= X(s) /\ X(s) <= 0
  /\ -25 <= Y(s) /\ Y(s) <= 25

TableGoBulls(s) ==
  /\ Millionths(s, 3) - Millionths(s, 2) >= 243000
  /\ Millionths(s, 4) - Millionths(s, 5) >= 243000
  /\ Millionths(s, 2) <= 243000 /\ Millionths(s, 5) <= 243000
  /\ TableLevel(s)

TableHalt(s) ==
  /\ Millionths(s, 1) >= 121460
  /\ Millionths(s, 2) >= 243000 /\ Millionths(s, 3) >= 243000
  /\ Millionths(s, 1) + Millionths(s, 2) + Millionths(s, 3)
       + Millionths(s, 4) + Millionths(s, 5) >= 2226720
  /\ TableLevel(s)

\* C13: each hand's chain is the ordered list THUMBS_UP, PEACE, GO_BULLS, HALT,
\* LAND, NONE, first match wins, with the THUMBS_UP, PEACE, GO_BULLS and HALT
\* rules of the table.
C13_OrderedTable ==
  Classified =>
    IF TableThumbsUp(cHand, cSnap) THEN cOut = "THUMBS_UP"
    ELSE IF TablePeace(cSnap) THEN cOut = "PEACE"
    ELSE IF TableGoBulls(cSnap) THEN cOut = "GO_BULLS"
    ELSE IF TableHalt(cSnap) THEN cOut = "HALT"
    ELSE cOut \in {"LAND", "NONE"}

\* C14: in both hand loops a recognised LAND calls land(), a recognised
\* THUMBS_UP calls takeoff(), and PEACE, GO_BULLS, HALT and no gesture call
\* neither.
C14_Dispatch ==
  [][\A h \in Hands :
       pc[h] = "h_loop" =>
         /\ gesture'[h] = "LAND" => pc'[h] = "ld_entry"
         /\ gesture'[h] = "THUMBS_UP" => pc'[h] = "tk_entry"
         /\ gesture'[h] \in {"PEACE", "GO_BULLS", "HALT", "NONE"}
              => pc'[h] \notin {"ld_entry", "tk_entry"}]_vars

\* C15: calibration ends only in a pass in which no axis of either hand moved
\* by more than 10 degrees since the previous sample and in which both hands'
\* zero reference has been set; no hand loop runs before calibration has ended.
C15_CalibrationEnds ==
  [][/\ (neutralL = 0 /\ neutralL' = 1) =>
          /\ neutralR' = 1
          /\ homed' = [h \in Hands |-> TRUE]
          /\ \A h \in Hands, i \in 1..3 :
               /\ previous'[h][i] - previous[h][i] <= 10
               /\ previous[h][i] - previous'[h][i] <= 10
     /\ pc'["calib"] = "done" =>
          neutralL' = 1 /\ neutralR' = 1 /\ homed' = [h \in Hands |-> TRUE]
     /\ \A h \in Hands : pc'[h] # "idle" => pc'["calib"] = "done"]_vars

\* calibration has ended and both hand loops are sampling
C15_Witness ==
  /\ pc["calib"] = "done" /\ neutralL = 1 /\ neutralR = 1
  /\ homed = [h \in Hands |-> TRUE]
  /\ pc["left"] = "h_loop" /\ pc["right"] = "h_loop"

\* C16, as stated: the keepalive thread and both hand loops are started only
\* after calibration has ended, and no status refresh is sent before that.
C16_AllAfterCalibration ==
  /\ \A t \in Pollers : pc[t] # "idle" => pc["calib"] = "done"
  /\ "status" \in sent => pc["calib"] = "done"

\* C16, amended: both hand loops are started only after calibration has ended
\* and been joined; the keepalive thread is started before calibration is.
C16_HandsAfterCalibration ==
  /\ \A h \in Hands :
       pc[h] # "idle" =>
         pc["calib"] = "done" /\ pc["main"] \notin {"start_calib", "join_calib"}
  /\ pc["calib"] # "idle" => pc["status"] # "idle"

\* both hand loops run, after a calibration during which the keepalive
\* thread's refresh was answered
C16_Witness ==
  /\ pc["left"] = "h_loop" /\ pc["right"] = "h_loop" /\ pc["calib"] = "done"
  /\ pc["status"] = "ka_sleep" /\ session_id # None

\* C17: once the operator's interrupt has ended the main thread, no task goes
\* on sampling its glove: neither calibration nor a hand loop takes a step from
\* a sample.
C17_InterruptStopsSampling ==
  [][(pc["main"] = "exited") =>
       /\ pc["calib"] = "c_sample" => pc'["calib"] = "c_sample"
       /\ \A h \in Hands : pc[h] = "h_loop" => pc'[h] = "h_loop"]_vars

\* C18: a failing fault override request does not abort takeoff(): a takeoff()
\* that ended with an exception did not end on an override request.
C18_OverrideFailureNotFatal ==
  (method = "takeoff" /\ outcome = "raised") =>
    lastEvent \notin {"set_fault_override/2", "set_fault_override/3"}

\* C19: in a pilot session a takeoff() that has returned had a poll that
\* reported FLYING.
C19_ReturnsOnlyOnFlying ==
  (method = "takeoff" /\ access_level = "PILOT" /\ pc["api"] = "idle"
     /\ outcome = "returned")
  => tally["phase:FLYING"] >= 1

\* takeoff() has returned after polls without a phase, with an informational
\* and with an unrecognised phase
C19_Witness ==
  /\ method = "takeoff" /\ access_level = "PILOT" /\ pc["api"] = "idle"
  /\ outcome = "returned"
  /\ tally["phase:"] = 1 /\ tally["phase:LOGGING_START"] = 1
  /\ tally["phase:UNKNOWN"] = 1 /\ tally["active_faults"] = 1
  /\ tally["phase:FLYING"] = 1

\* C20: while one hand's loop is inside takeoff() or land(), the other hand's
\* loop is not held up: it can sample, and after a LAND or a disconnection it
\* can enter land().
C20_OtherHandFree ==
  \A h \in Hands : \A o \in Hands \ {h} :
    stack[o] # <<>> =>
      /\ pc[h] = "h_loop" => ENABLED HandSample(h)
      /\ pc[h] = "h_failsafe" => ENABLED HandFailSafe(h)
      /\ pc[h] = "ld_entry" => ENABLED Land(h)

\* the right hand waits for a reply inside takeoff(), the left hand has read
\* LAND and called land()
C20_Witness ==
  /\ gesture["right"] = "THUMBS_UP" /\ pc["right"] = "ups_wait"
  /\ gesture["left"] = "LAND" /\ pc["left"] = "ld_entry"

\* C21: once the client is authenticated no operation changes access_token or
\* access_level, and session_id is written only by a status refresh, which
\* sets it to the sessionId of its reply.
C21_SessionFields ==
  [][pc["api"] # "construct" =>
       /\ UNCHANGED <<access_token, access_level>>
       /\ (session_id' # session_id \/ applied' # applied) =>
            /\ pc["api"] = "ups_wait" /\ outcome' # "raised"
            /\ session_id' = applied']_vars

\* an authenticated client after two calls, the second a takeoff() that got
\* as far as its fault overrides, with a refresh's sessionId stored
C21_Witness ==
  /\ access_token = "token" /\ access_level = "PILOT" /\ session_id = "s2"
  /\ calls = 2 /\ method = "takeoff" /\ tally["set_fault_override/3"] = 1

\* the events of polls that reported a phase other than FLYING
OtherPhaseEvents == {"phase:" \o p : p \in Phases \ {"", "FLYING"}}

\* C22: land() takes a poll without a phase as still flying and sends another
\* land command, and it returns at the first poll that reports a phase other
\* than FLYING, recognised or not: when land() has returned in a pilot session
\* its last poll reported such a phase, and no poll before it did.
C22_LandExit ==
  (method = "land" /\ access_level = "PILOT") =>
    /\ (pc["api"] = "ld_loop" /\ lastEvent = "phase:") => phase["api"] = "FLYING"
    /\ (pc["api"] = "idle" /\ outcome = "returned") =>
         /\ lastEvent \in OtherPhaseEvents
         /\ \A e \in OtherPhaseEvents : tally[e] = (IF e = lastEvent THEN 1 ELSE 0)

\* land() has returned on an unrecognised phase after a poll without a phase
C22_Witness ==
  /\ method = "land" /\ access_level = "PILOT" /\ outcome = "returned"
  /\ tally["phase:"] = 1 /\ tally["phase:FLYING"] = 0
  /\ tally["phase:UNKNOWN"] = 1 /\ tally["land"] = 2

\* C23: on a disconnection a hand loop calls land() first and waits afterwards:
\* the handler's first step is the call of land().
C23_LandBeforeWait ==
  [][\A h \in Hands : pc[h] = "h_disc" => pc'[h] \in {"h_disc", "ld_entry"}]_vars

\* the phases takeoff() has a branch for
RecognisedPhases == InfoPhases \cup {"READY_FOR_GROUND_TAKEOFF", "FLYING"}

\* C24: in takeoff()'s loop a ground_takeoff command follows a poll exactly
\* when the poll reported READY_FOR_GROUND_TAKEOFF, the active-faults query
\* exactly when it reported a phase that is not empty and not recognised, and
\* a poll without a phase or with an informational phase is followed by no
\* request but the next poll; in all these cases the loop goes on polling
\* (unless the request made fails).
C24_TakeoffRequests ==
  [][pc["api"] = "tk_phase" =>
       LET ph == response["api"]
       IN  /\ tally'["ground_takeoff"] = tally["ground_takeoff"]
                + (IF ph = "READY_FOR_GROUND_TAKEOFF" THEN 1 ELSE 0)
           /\ tally'["active_faults"] = tally["active_faults"]
                + (IF ph \notin RecognisedPhases \cup {""} THEN 1 ELSE 0)
           /\ \A e \in Requests \ {"ground_takeoff", "active_faults"} :
                tally'[e] = tally[e]
           /\ ph \in InfoPhases \cup {""} =>
                pc'["api"] = "tk_sleep" /\ UNCHANGED <<sent, tally>>
           /\ ph # "FLYING" => pc'["api"] = "tk_sleep" \/ outcome' = "raised"]_vars

\* takeoff() is polling on after a poll without a phase, an informational, an
\* unrecognised and a READY_FOR_GROUND_TAKEOFF poll
C24_Witness ==
  /\ method = "takeoff" /\ pc["api"] = "tk_sleep"
  /\ tally["phase:"] = 1 /\ tally["phase:REST"] = 1
  /\ tally["phase:UNKNOWN"] = 1 /\ tally["active_faults"] = 1
  /\ tally["phase:READY_FOR_GROUND_TAKEOFF"] = 1 /\ tally["ground_takeoff"] = 1

\* C25: a takeoff() of a pilot session makes one status refresh, then one
\* override request for fault 2 and one for fault 3, and only then its first
\* poll; no ground_takeoff command comes before the overrides.
C25_TakeoffPrologue ==
  (method = "takeoff" /\ access_level = "PILOT") =>
    /\ tally["set_fault_override/2"] <= 1 /\ tally["set_fault_override/3"] <= 1
    /\ tally["set_fault_override/2"] = 1 => tally["status"] >= 1
    /\ tally["set_fault_override/3"] = 1 => tally["set_fault_override/2"] = 1
    /\ tally["status"] >= 2 => tally["set_fault_override/3"] = 1
    /\ tally["ground_takeoff"] >= 1 => tally["set_fault_override/3"] = 1
    /\ (tally["set_fault_override/2"] = 0 \/ tally["set_fault_override/3"] = 0) =>
         \A p \in Phases : tally["phase:" \o p] = 0

\* takeoff() waits for the reply to its first poll
C25_Witness ==
  /\ method = "takeoff" /\ access_level = "PILOT" /\ pc["api"] = "ups_wait"
  /\ tally["status"] = 2
  /\ tally["set_fault_override/2"] = 1 /\ tally["set_fault_override/3"] = 1
  /\ \A p \in Phases : tally["phase:" \o p] = 0

\* the gestures whose rule a snapshot satisfies, for one hand
RulesHeld(h, s) ==
  IF h = "left"
  THEN {g \in {"THUMBS_UP"} : LThumbsUp(s)} \cup {g \in {"PEACE"} : LPeace(s)}
       \cup {g \in {"GO_BULLS"} : LGoBulls(s)} \cup {g \in {"HALT"} : LHalt(s)}
       \cup {g \in {"LAND"} : LLand(s)}
  ELSE {g \in {"THUMBS_UP"} : RThumbsUp(s)} \cup {g \in {"PEACE"} : RPeace(s)}
       \cup {g \in {"GO_BULLS"} : RGoBulls(s)} \cup {g \in {"HALT"} : RHalt(s)}
       \cup {g \in {"LAND"} : RLand(s)}

\* C26 as stated: no snapshot satisfies the rules of two gestures of one hand.
C26_MutuallyExclusive ==
  Classified => Cardinality(RulesHeld(cHand, cSnap)) <= 1

\* C26: a snapshot that satisfies the LAND rule satisfies no other rule of the
\* hand, and one that satisfies THUMBS_UP satisfies neither GO_BULLS nor HALT;
\* the other pairs can hold together, and then the chain's order decides.
C26_ExclusivePairs ==
  Classified =>
    LET held == RulesHeld(cHand, cSnap)
    IN  /\ "LAND" \in held => held = {"LAND"}
        /\ "THUMBS_UP" \in held => held \subseteq {"THUMBS_UP", "PEACE"}
        /\ Cardinality(held) > 1 => cOut = GestureOf(cHand, cSnap) /\ cOut \in held

\* a snapshot satisfies THUMBS_UP and PEACE and is classified THUMBS_UP
C26_Witness ==
  /\ Classified /\ {"THUMBS_UP", "PEACE"} \subseteq RulesHeld(cHand, cSnap)
  /\ cOut = "THUMBS_UP"
  /\ cSnap.fingers = <<5000, 30000, 30000, 60000, 60000>>

\* C27: a status refresh that fails leaves session_id, access_token and
\* access_level as they were, which is the sessionId the failed request sent,
\* and every refresh sends the session_id stored when it starts: the refresh
\* after a failed one sends the same sessionId.
C27_FailedRefresh ==
  [][/\ (pc["api"] = "ups_wait" /\ outcome' = "raised") =>
          /\ UNCHANGED <<session_id, access_token, access_level>>
          /\ session_id' = reqSid["api"]
     /\ tally'["status"] = tally["status"] + 1 => reqSid'["api"] = session_id]_vars

\* the second call, a refresh of a session that has a sessionId, has failed
C27_Witness ==
  /\ calls = 2 /\ method = "update_pilot_status" /\ outcome = "raised"
  /\ lastEvent = "status" /\ session_id = "s1" /\ access_level = "PILOT"

\* C28: land() of a pilot session commands before it reads: no status request
\* of the call comes before its first land command, and when it has returned
\* it has sent one land command plus one for each poll that reported FLYING or
\* no phase.
C28_LandCommands ==
  (method = "land" /\ access_level = "PILOT") =>
    /\ pc["api"] \notin {"ld_entry", "ld_loop"} => tally["land"] >= 1
    /\ tally["status"] >= 1 => tally["land"] >= 1
    /\ (pc["api"] = "idle" /\ outcome = "returned") =>
         tally["land"] = 1 + tally["phase:FLYING"] + tally["phase:"]

\* land() has returned after one land command: its only poll reported REST
C28_Witness ==
  /\ method = "land" /\ access_level = "PILOT" /\ outcome = "returned"
  /\ pc["api"] = "idle" /\ tally["land"] = 1 /\ tally["status"] = 1
  /\ tally["phase:REST"] = 1

\* C29: a takeoff() a hand loop is in sends no ground_takeoff command once the
\* other hand loop's land() has begun during it, neither while that land() is
\* in progress nor after it has returned.
C29_TakeoffYieldsToLand ==
  [][\A o \in Hands :
       (pc[o] = "tk_phase" /\ TakeoffBranch(response[o]) = "ground_takeoff"
                           /\ pc'[o] # "tk_phase")
         => ~landSince[o]]_vars

\* C30: calibration never commits on its first orientation sample: a sample
\* taken while the previous values are still the sentinel 1000 sets no zero
\* reference and does not end calibration, a commit happens only in a sample
\* whose previous values are an earlier sample's orientations of both hands,
\* and a sample cut short by a disconnection leaves the previous values as
\* they were.
C30_NoCommitOnFirstSample ==
  [][/\ (pc["calib"] = "c_sample" /\ \E h \in Hands : previous[h] = Sentinel) =>
          UNCHANGED <<homed, neutralL, neutralR>>
     /\ (homed' # homed \/ neutralL' # neutralL \/ neutralR' # neutralR) =>
          /\ pc["calib"] = "c_sample"
          /\ \A h \in Hands : previous[h] \in CalibPoses
     /\ (pc["calib"] = "c_sample" /\ pc'["calib"] = "c_disc") =>
          UNCHANGED <<previous, initial>>]_vars

\* the commit has just been made, on a sample that followed an earlier one
C30_Witness ==
  /\ pc["calib"] = "c_loop" /\ neutralL = 1 /\ neutralR = 1
  /\ homed = [h \in Hands |-> TRUE]
  /\ previous["left"] = <<10, 0, 0>> /\ previous["right"] = <<0, 0, -11>>

\* the flexions as the driver returns them, not rounded
ExactFlex == [r \in RawValues |-> Dbl(r, RawScale)]

\* the chain of hand h on the flexions of a snapshot as read: the comparisons
\* of LeftGesture and RightGesture, with ExactFlex in the place of Flex
ExactGesture(h, s) ==
  LET t == ExactFlex[s.fingers[1]]
      i == ExactFlex[s.fingers[2]]
      m == ExactFlex[s.fingers[3]]
      r == ExactFlex[s.fingers[4]]
      p == ExactFlex[s.fingers[5]]
      sum == FAdd(FAdd(FAdd(FAdd(t, i), m), r), p)
      level == (0 >= X(s) /\ X(s) >= -120) /\ (25 >= Y(s) /\ Y(s) >= -25)
  IN  IF /\ DiffGe(i, t, T243) /\ DiffGe(m, t, T243)
         /\ DiffGe(r, t, T243) /\ DiffGe(p, t, T243)
         /\ IF h = "left" THEN Y(s) >= 60 ELSE Y(s) <= -60
      THEN "THUMBS_UP"
      ELSE IF DiffGe(r, m, T243) /\ DiffGe(p, i, T243) /\ FxLe(T04049, t)
      THEN "PEACE"
      ELSE IF /\ DiffGe(m, i, T243) /\ DiffGe(r, p, T243)
              /\ FxLe(i, T243) /\ FxLe(p, T243) /\ level
      THEN "GO_BULLS"
      ELSE IF /\ FxLe(T12146, t) /\ FxLe(T243, i) /\ FxLe(T243, m)
              /\ FxLe(T222672, sum) /\ level
      THEN "HALT"
      ELSE IF /\ FxLe(t, T080972) /\ FxLe(i, T080972) /\ FxLe(m, T080972)
              /\ FxLe(r, T080972) /\ FxLe(p, T080972)
              /\ (-25 <= X(s) /\ X(s) <= 25)
              /\ ((IF h = "left" THEN -25 ELSE -15) <= Y(s) /\ Y(s) <= 25)
      THEN "LAND"
      ELSE "NONE"

\* C31: rounding the flexions to four places does not change the gesture: the
\* chain's result on a snapshot is the result of the same comparisons made on
\* the flexions as read.
C31_RoundingKeepsGesture ==
  Classified => cOut = ExactGesture(cHand, cSnap)
====
